---- MODULE Spec2Model ----
(***************************************************************************)
(* A model of app.py: the background initialization of the Vertex AI model *)
(* handle, the /ready readiness probe and the /api/recommend pipeline.     *)
(*                                                                         *)
(* Threads: the initialization thread (InitThread) and NumReq request      *)
(* workers, each serving one HTTP request at a time.  One step of a thread *)
(* is one access to shared state (model, model_initialization_error,       *)
(* model_lock, the provider) together with the purely local computation    *)
(* that follows it.                                                        *)
(***************************************************************************)
EXTENDS Integers, Sequences, FiniteSets

\* ------------------------------------------------------------------ bounds
\* Number of request workers handling requests concurrently.
NumReq == 2
\* Longest symptoms string drawn for the input-validation specification.
MaxLen == 4
\* Longest "recommendations" list the provider stub returns.
MaxRecs == 3

Requests == 1..NumReq

\* ------------------------------------------------------------ thread ids
\* Holder values of model_lock: nobody, or the initialization thread, or a
\* request worker r \in Requests.
Unlocked == -1
InitThread == 0

\* Python's None, for the model handle and the recorded exception.
None == "None"
\* The object GenerativeModel("gemini-1.5-flash-001") returns.
Handle == "gemini-1.5-flash-001"

\* The exceptions the initialization thread can record (str(e)).
ErrNoProject == "GCP_PROJECT environment variable not set."
ErrInit == "vertexai.init raised"
ErrConstruct == "GenerativeModel raised"
ErrLog == "success print raised"

\* CLINICS_LIST, the fixed catalog (identifiers transliterated to ASCII).
CLINICS_LIST ==
  << "internal-gastro-liver", "urology", "general-medicine", "endocrine-diabetes",
     "cardiology-echo", "sonar-duplex", "plastic-surgery", "orthopedics",
     "dermatology-laser" >>

\* ------------------------------------------------------------ JSON nodes
\* Every piece of text or JSON data is a node [k, s, items] so that all values
\* of the model have one shape: k the kind, s a string payload (a string's
\* text, a member's key), items the children.
Node(k, s, items) == [k |-> k, s |-> s, items |-> items]
NoNode == Node("none", "", << >>)
\* Plain text (the body of a /ready response).
PlainText(s) == Node("text", s, << >>)
JStr(s) == Node("str", s, << >>)
JNum(s) == Node("num", s, << >>)
JNull == Node("null", "", << >>)
JArr(items) == Node("arr", "", items)
JMember(key, value) == Node("member", key, << value >>)
JObj(members) == Node("obj", "", members)

VARIABLES
  GCP_PROJECT,                  \* os.environ.get("GCP_PROJECT"): "" when unset
  model,                        \* the global model handle
  model_initialization_error,   \* the global recorded exception
  model_lock,                   \* holder of threading.Lock()
  initPc,                       \* position of initialize_vertex_ai
  loaded_model,                 \* its local loaded_model
  exc,                          \* the exception in flight to its except block
  pc,                           \* position of each request worker
  route,                        \* "ready" | "recommend" | None
  request,                      \* the request of each worker
  prompt,                       \* local prompt of recommend_clinic
  response,                     \* local response (the provider's text)
  result,                       \* the HTTP response sent: [code, body]
  seen,                         \* history: lifecycle state when the lock was taken
  invoked,                      \* history: generate_content was called for it
  generated,                    \* history: the text the provider produced for it
  answered,                     \* history: the globals when a lock holder answered
  failed_calls                  \* history: a recommend call past the gate ended in 400 or 500

vars == << GCP_PROJECT, model, model_initialization_error, model_lock, initPc,
           loaded_model, exc, pc, route, request, prompt, response, result,
           seen, invoked, generated, answered, failed_calls >>

initVars == << GCP_PROJECT, initPc, loaded_model, exc >>
globalVars == << model, model_initialization_error >>
reqVars == << pc, route, request, prompt, response, result, seen, invoked, generated,
             answered, failed_calls >>

\* The two globals, as a handler holding the lock finds them.
Snapshot == [model |-> model, error |-> model_initialization_error]
NoSnapshot == [model |-> "", error |-> ""]

\* The lifecycle state as the handlers observe it (readiness_check's three
\* branches): the handle first, then the recorded error.
LifecycleState ==
  IF model # None THEN "Ready"
  ELSE IF model_initialization_error # None THEN "Failed"
  ELSE "Initializing"

\* ------------------------------------------------- initialization thread
\* A variant that takes model_lock before it starts configuring.
InitReadEnvTakesLock ==
  /\ initPc = "try"
  /\ model_lock = Unlocked
  /\ model_lock' = InitThread
  /\ IF GCP_PROJECT = ""
       THEN /\ exc' = ErrNoProject
            /\ initPc' = "except"
       ELSE /\ exc' = exc
            /\ initPc' = "init"
  /\ UNCHANGED << GCP_PROJECT, loaded_model >>
  /\ UNCHANGED globalVars
  /\ UNCHANGED reqVars

\* project_id = os.environ.get("GCP_PROJECT"); raise ValueError when unset.
InitReadEnv ==
  /\ initPc = "try"
  /\ IF GCP_PROJECT = ""
       THEN /\ exc' = ErrNoProject
            /\ initPc' = "except"
       ELSE /\ exc' = exc
            /\ initPc' = "init"
  /\ UNCHANGED << GCP_PROJECT, loaded_model, model_lock >>
  /\ UNCHANGED globalVars
  /\ UNCHANGED reqVars

\* vertexai.init(project=..., location=...) returns.
InitVertexReturns ==
  /\ initPc = "init"
  /\ initPc' = "construct"
  /\ UNCHANGED << GCP_PROJECT, loaded_model, exc, model_lock >>
  /\ UNCHANGED globalVars
  /\ UNCHANGED reqVars

\* vertexai.init raises.
InitVertexRaises ==
  /\ initPc = "init"
  /\ exc' = ErrInit
  /\ initPc' = "except"
  /\ UNCHANGED << GCP_PROJECT, loaded_model, model_lock >>
  /\ UNCHANGED globalVars
  /\ UNCHANGED reqVars

\* loaded_model = GenerativeModel("gemini-1.5-flash-001") returns.
InitConstructReturns ==
  /\ initPc = "construct"
  /\ loaded_model' = Handle
  /\ initPc' = "acquire"
  /\ UNCHANGED << GCP_PROJECT, exc, model_lock >>
  /\ UNCHANGED globalVars
  /\ UNCHANGED reqVars

\* GenerativeModel(...) raises.
InitConstructRaises ==
  /\ initPc = "construct"
  /\ exc' = ErrConstruct
  /\ initPc' = "except"
  /\ UNCHANGED << GCP_PROJECT, loaded_model, model_lock >>
  /\ UNCHANGED globalVars
  /\ UNCHANGED reqVars

\* with model_lock: (enter)
InitAcquire ==
  /\ initPc = "acquire"
  /\ model_lock = Unlocked
  /\ model_lock' = InitThread
  /\ initPc' = "assign"
  /\ UNCHANGED << GCP_PROJECT, loaded_model, exc >>
  /\ UNCHANGED globalVars
  /\ UNCHANGED reqVars

\* model = loaded_model
InitAssign ==
  /\ initPc = "assign"
  /\ model' = loaded_model
  /\ initPc' = "release"
  /\ UNCHANGED << GCP_PROJECT, loaded_model, exc, model_lock,
                  model_initialization_error >>
  /\ UNCHANGED reqVars

\* A variant of the exit that leaves model_lock held.
InitReleaseSkipped ==
  /\ initPc = "release"
  /\ initPc' = "log"
  /\ UNCHANGED << GCP_PROJECT, loaded_model, exc, model_lock >>
  /\ UNCHANGED globalVars
  /\ UNCHANGED reqVars

\* with model_lock: (exit)
InitRelease ==
  /\ initPc = "release"
  /\ model_lock' = Unlocked
  /\ initPc' = "log"
  /\ UNCHANGED << GCP_PROJECT, loaded_model, exc >>
  /\ UNCHANGED globalVars
  /\ UNCHANGED reqVars

\* print(f"SUCCESS: ... '{model._model_name}' ...") returns: the thread ends.
InitLogReturns ==
  /\ initPc = "log"
  /\ initPc' = "done"
  /\ UNCHANGED << GCP_PROJECT, loaded_model, exc, model_lock >>
  /\ UNCHANGED globalVars
  /\ UNCHANGED reqVars

\* The success print raises (the attribute read or the write to stdout): still
\* inside the try block, so the except block runs.
InitLogRaises ==
  /\ initPc = "log"
  /\ exc' = ErrLog
  /\ initPc' = "except"
  /\ UNCHANGED << GCP_PROJECT, loaded_model, model_lock >>
  /\ UNCHANGED globalVars
  /\ UNCHANGED reqVars

\* A variant of the except block that also drops the handle.
InitExceptResetsModel ==
  /\ initPc = "except"
  /\ model_initialization_error' = exc
  /\ model' = None
  /\ initPc' = "done"
  /\ UNCHANGED << GCP_PROJECT, loaded_model, exc, model_lock >>
  /\ UNCHANGED reqVars

\* A variant of the except block that records the error and tries again.
InitExceptRetries ==
  /\ initPc = "except"
  /\ model_initialization_error' = exc
  /\ initPc' = "try"
  /\ UNCHANGED << GCP_PROJECT, loaded_model, exc, model_lock, model >>
  /\ UNCHANGED reqVars

\* except Exception as e: model_initialization_error = e (no lock taken).
InitExcept ==
  /\ initPc = "except"
  /\ model_initialization_error' = exc
  /\ initPc' = "done"
  /\ UNCHANGED << GCP_PROJECT, loaded_model, exc, model_lock, model >>
  /\ UNCHANGED reqVars

InitStep ==
  \/ InitReadEnv
  \/ InitVertexReturns
  \/ InitVertexRaises
  \/ InitConstructReturns
  \/ InitConstructRaises
  \/ InitAcquire
  \/ InitAssign
  \/ InitRelease
  \/ InitLogReturns
  \/ InitLogRaises
  \/ InitExcept

\* ------------------------------------------------------- HTTP requests
\* A request as recommend_clinic reads it:
\*   is_json  request.is_json (the Content-Type says JSON);
\*   shape    what request.get_json() finds in the body: "unparseable" text,
\*            or a JSON "null", "num", "str", "arr" or "obj";
\*   sk       for an object, what data.get('symptoms') is: "missing" (None),
\*            "null", "zero" (a falsy non-string), "num" (a truthy non-string)
\*            or "str";
\*   chars    the characters of a "str" symptoms value.
Req(is_json, shape, sk, chars) ==
  [is_json |-> is_json, shape |-> shape, sk |-> sk, chars |-> chars]
NoRequest == Req(FALSE, "none", "none", << >>)

\* The characters symptoms strings are drawn from, and those str.strip() drops.
Chars == {" ", "a"}
Whitespace == {" "}

RECURSIVE LStrip(_)
LStrip(s) ==
  IF s = << >> THEN s
  ELSE IF Head(s) \in Whitespace THEN LStrip(Tail(s)) ELSE s

RECURSIVE RStrip(_)
RStrip(s) ==
  IF s = << >> THEN s
  ELSE IF s[Len(s)] \in Whitespace THEN RStrip(SubSeq(s, 1, Len(s) - 1)) ELSE s

\* symptoms.strip()
Strip(s) == RStrip(LStrip(s))

\* Python truthiness of data.get('symptoms').
Truthy(req) ==
  \/ req.sk = "num"
  \/ req.sk = "str" /\ req.chars # << >>

\* The minimum of len(symptoms.strip()).
MinSymptoms == 3

\* A variant of the test with the comparison off by one.
SymptomsRejectedOffByOne(req) ==
  \/ ~Truthy(req)
  \/ req.sk # "str"
  \/ Len(Strip(req.chars)) <= MinSymptoms

\* not symptoms or not isinstance(symptoms, str) or len(symptoms.strip()) < 3
SymptomsRejected(req) ==
  \/ ~Truthy(req)
  \/ req.sk # "str"
  \/ Len(Strip(req.chars)) < MinSymptoms

\* The client-visible messages.
MsgInitializing == "AI model is still initializing."
MsgNotAvailable == "AI model is not available. Error: "
MsgNotJson == "Invalid request: Content-Type must be application/json."
MsgSymptoms == "Symptoms must be provided as a non-empty string."
MsgEmpty == "The AI model returned an empty response."
MsgMalformed == "The AI model returned a malformed response."
MsgUnexpected == "An unexpected internal server error occurred."
MsgInitFailed == "Initialization failed: "

\* An HTTP response.
Http(code, body) == [code |-> code, body |-> body]
NoResult == Http(0, NoNode)
\* jsonify({"error": msg})
ErrorBody(msg) == JObj(<< JMember("error", JStr(msg)) >>)
\* jsonify({"error": f"{prefix}{e}"})
ErrorBodyWith(prefix, e) ==
  JObj(<< JMember("error", Node("str", prefix, << PlainText(e) >>)) >>)

\* The prompt: the catalog and the raw symptoms inside the fixed instructions.
Prompt(symptoms) == [clinics |-> CLINICS_LIST, symptoms |-> symptoms]
NoPrompt == [clinics |-> << >>, symptoms |-> << >>]

\* What the part of recommend_clinic between the gate and the model call does
\* with a request: "400-json", "400-symptoms", "500" (an exception reaches the
\* outer except Exception) or "call".
\*   request.is_json false                      -> 400
\*   request.get_json() raises BadRequest       -> except Exception -> 500
\*   data is not a dict: data.get raises        -> except Exception -> 500
\*   symptoms rejected                          -> 400
Validate(req) ==
  IF ~req.is_json THEN "400-json"
  ELSE IF req.shape # "obj" THEN "500"
  ELSE IF SymptomsRejected(req) THEN "400-symptoms"
  ELSE "call"

\* --------------------------------------------------------- JSON library
\* A text the provider returns is a node: kind "text" for text that is not
\* JSON (s = "" is the empty text), otherwise the JSON document written in the
\* text, an object's members in the order (and with the repetitions) of the text.

\* Keys in alphabetical order, for sort_keys.
KeyOrder == << "error", "foo", "id", "reason", "recommendations" >>
Rank(key) == CHOOSE i \in 1..Len(KeyOrder) : KeyOrder[i] = key

\* d[key] = value on a dict kept as its members in insertion order: a key
\* already present keeps its place and takes the new value.
DictPut(members, m) ==
  IF \E i \in 1..Len(members) : members[i].s = m.s
    THEN [i \in 1..Len(members) |-> IF members[i].s = m.s THEN m ELSE members[i]]
    ELSE Append(members, m)

RECURSIVE DictOf(_, _)
DictOf(members, acc) ==
  IF members = << >> THEN acc
  ELSE DictOf(Tail(members), DictPut(acc, Head(members)))

\* json.loads on a JSON text: objects become dicts, arrays lists.
RECURSIVE Loads(_)
Loads(t) ==
  IF t.k = "obj"
    THEN JObj(DictOf([i \in 1..Len(t.items) |->
                        JMember(t.items[i].s, Loads(t.items[i].items[1]))], << >>))
  ELSE IF t.k = "arr"
    THEN JArr([i \in 1..Len(t.items) |-> Loads(t.items[i])])
  ELSE t

\* Insert a member into members sorted by key.
RECURSIVE InsertSorted(_, _)
InsertSorted(members, m) ==
  IF members = << >> THEN << m >>
  ELSE IF Rank(m.s) < Rank(Head(members).s) THEN << m >> \o members
  ELSE << Head(members) >> \o InsertSorted(Tail(members), m)

RECURSIVE SortMembers(_)
SortMembers(members) ==
  IF members = << >> THEN << >>
  ELSE InsertSorted(SortMembers(Tail(members)), Head(members))

\* json.dumps(value, sort_keys=True), Flask's default for jsonify.
RECURSIVE Dumps(_)
Dumps(v) ==
  IF v.k = "obj"
    THEN JObj(SortMembers([i \in 1..Len(v.items) |->
                             JMember(v.items[i].s, Dumps(v.items[i].items[1]))]))
  ELSE IF v.k = "arr"
    THEN JArr([i \in 1..Len(v.items) |-> Dumps(v.items[i])])
  ELSE v

\* A variant that answers with the recommendations member alone.
JsonifyRecommendationsOnly(v) ==
  JObj(<< (CHOOSE m \in { v.items[i] : i \in 1..Len(v.items) } : m.s = "recommendations") >>)

\* jsonify(json_response): the response body.
Jsonify(v) == Dumps(v)

\* Strings that contain the substring "recommendations".
ContainsKey(s) == s \in {"recommendations", "see recommendations"}

\* "recommendations" in json_response: a key of a dict, an element of a list,
\* a substring of a string; "TypeError" for a number, null or bool.
HasRecommendations(j) ==
  IF j.k = "obj" THEN \E i \in 1..Len(j.items) : j.items[i].s = "recommendations"
  ELSE IF j.k = "arr" THEN \E i \in 1..Len(j.items) : j.items[i] = JStr("recommendations")
  ELSE j.k = "str" /\ ContainsKey(j.s)

\* json_response["recommendations"] of a dict.
GetRecommendations(j) ==
  LET i == CHOOSE i \in 1..Len(j.items) : j.items[i].s = "recommendations"
  IN j.items[i].items[1]

\* A variant without the isinstance(..., list) test.
HandleResponseNoListTest(t) ==
  IF t.k = "text" /\ t.s = "" THEN Http(500, ErrorBody(MsgEmpty))
  ELSE IF t.k = "text" THEN Http(500, ErrorBody(MsgMalformed))
  ELSE LET j == Loads(t) IN
    IF j.k \in {"num", "null", "bool"} THEN Http(500, ErrorBody(MsgUnexpected))
    ELSE IF ~HasRecommendations(j) THEN Http(500, ErrorBody(MsgMalformed))
    ELSE IF j.k # "obj" THEN Http(500, ErrorBody(MsgUnexpected))
    ELSE Http(200, Jsonify(j))

\* A variant with one message for every failure.
HandleResponseOneMessage(t) ==
  IF t.k = "text" THEN Http(500, ErrorBody(MsgUnexpected))
  ELSE LET j == Loads(t) IN
    IF j.k \in {"num", "null", "bool"} THEN Http(500, ErrorBody(MsgUnexpected))
    ELSE IF ~HasRecommendations(j) THEN Http(500, ErrorBody(MsgUnexpected))
    ELSE IF j.k # "obj" THEN Http(500, ErrorBody(MsgUnexpected))
    ELSE IF GetRecommendations(j).k # "arr" THEN Http(500, ErrorBody(MsgUnexpected))
    ELSE Http(200, Jsonify(j))

\* Lines 137-153: what recommend_clinic answers to the provider's text.
\*   not response.text                                  -> 500 (empty)
\*   json.loads raises JSONDecodeError                  -> 500 (malformed)
\*   the `in` test or the subscript raises TypeError    -> outer except, 500
\*   key missing, or its value not a list: ValueError   -> 500 (malformed)
\*   otherwise                                          -> 200, jsonify
HandleResponse(t) ==
  IF t.k = "text" /\ t.s = "" THEN Http(500, ErrorBody(MsgEmpty))
  ELSE IF t.k = "text" THEN Http(500, ErrorBody(MsgMalformed))
  ELSE LET j == Loads(t) IN
    IF j.k \in {"num", "null", "bool"} THEN Http(500, ErrorBody(MsgUnexpected))
    ELSE IF ~HasRecommendations(j) THEN Http(500, ErrorBody(MsgMalformed))
    ELSE IF j.k # "obj" THEN Http(500, ErrorBody(MsgUnexpected))
    ELSE IF GetRecommendations(j).k # "arr" THEN Http(500, ErrorBody(MsgMalformed))
    ELSE Http(200, Jsonify(j))

\* ------------------------------------------------------- request workers
\* The HTTP layer hands worker r a request for `rt`; the handler starts at its
\* `with model_lock:`.
Arrive(r, rt, req) ==
  /\ pc[r] = "idle"
  /\ pc' = [pc EXCEPT ![r] = "acquire"]
  /\ route' = [route EXCEPT ![r] = rt]
  /\ request' = [request EXCEPT ![r] = req]
  /\ UNCHANGED << prompt, response, result, seen, invoked, generated, answered >>
  /\ UNCHANGED << model_lock, model, model_initialization_error >>
  /\ UNCHANGED initVars
  /\ UNCHANGED failed_calls

\* readiness_check: with model_lock: (enter)
ReadyAcquire(r) ==
  /\ pc[r] = "acquire"
  /\ route[r] = "ready"
  /\ model_lock = Unlocked
  /\ model_lock' = r
  /\ pc' = [pc EXCEPT ![r] = "check_model"]
  /\ seen' = [seen EXCEPT ![r] = LifecycleState]
  /\ UNCHANGED << route, request, prompt, response, result, invoked, generated, answered >>
  /\ UNCHANGED globalVars
  /\ UNCHANGED initVars
  /\ UNCHANGED failed_calls

\* The plain-text answers of /ready.
ReadyOk == Http(200, PlainText("OK"))
\* A variant that reports a failed initialization as not ready yet.
ReadyFailedAsNotYet(e) == Http(503, Node("text", MsgInitFailed, << PlainText(e) >>))
ReadyFailed(e) == Http(500, Node("text", MsgInitFailed, << PlainText(e) >>))
ReadyNotYet == Http(503, PlainText("Model is not ready yet."))

\* if model is not None: return "OK", 200   (leaving the with block)
ReadyCheckModel(r) ==
  /\ pc[r] = "check_model"
  /\ IF model # None
       THEN /\ result' = [result EXCEPT ![r] = ReadyOk]
            /\ model_lock' = Unlocked
            /\ pc' = [pc EXCEPT ![r] = "done"]
            /\ answered' = [answered EXCEPT ![r] = Snapshot]
       ELSE /\ pc' = [pc EXCEPT ![r] = "check_error"]
            /\ UNCHANGED << result, model_lock, answered >>
  /\ UNCHANGED << route, request, prompt, response, seen, invoked, generated >>
  /\ UNCHANGED globalVars
  /\ UNCHANGED initVars
  /\ UNCHANGED failed_calls

\* A variant of the second branch that consumes the error it reports.
ReadyCheckErrorConsumes(r) ==
  /\ pc[r] = "check_error"
  /\ result' = [result EXCEPT ![r] =
                  IF model_initialization_error # None
                    THEN ReadyFailed(model_initialization_error)
                    ELSE ReadyNotYet]
  /\ answered' = [answered EXCEPT ![r] = Snapshot]
  /\ model_initialization_error' = None
  /\ model_lock' = Unlocked
  /\ pc' = [pc EXCEPT ![r] = "done"]
  /\ UNCHANGED << route, request, prompt, response, seen, invoked, generated >>
  /\ UNCHANGED model
  /\ UNCHANGED initVars
  /\ UNCHANGED failed_calls

\* elif model_initialization_error is not None: return ..., 500
\* else: return "Model is not ready yet.", 503
ReadyCheckError(r) ==
  /\ pc[r] = "check_error"
  /\ result' = [result EXCEPT ![r] =
                  IF model_initialization_error # None
                    THEN ReadyFailed(model_initialization_error)
                    ELSE ReadyNotYet]
  /\ answered' = [answered EXCEPT ![r] = Snapshot]
  /\ model_lock' = Unlocked
  /\ pc' = [pc EXCEPT ![r] = "done"]
  /\ UNCHANGED << route, request, prompt, response, seen, invoked, generated >>
  /\ UNCHANGED globalVars
  /\ UNCHANGED initVars
  /\ UNCHANGED failed_calls

\* recommend_clinic: with model_lock: (enter)
RecAcquire(r) ==
  /\ pc[r] = "acquire"
  /\ route[r] = "recommend"
  /\ model_lock = Unlocked
  /\ model_lock' = r
  /\ pc' = [pc EXCEPT ![r] = "gate"]
  /\ seen' = [seen EXCEPT ![r] = LifecycleState]
  /\ UNCHANGED << route, request, prompt, response, result, invoked, generated, answered >>
  /\ UNCHANGED globalVars
  /\ UNCHANGED initVars
  /\ UNCHANGED failed_calls

\* A variant of the gate that tests the recorded error instead of the handle.
GateClosedOnError == model_initialization_error # None

\* A variant of the gate that lets every request through.
GateNeverClosed == FALSE

\* The gate's test, `model is None`.
GateClosed == model = None

\* A variant in which the rest of the handler stays inside the with block.
RecGateKeepsLock(r) ==
  /\ pc[r] = "gate"
  /\ pc' = [pc EXCEPT ![r] = IF GateClosed THEN "gate_error" ELSE "validate"]
  /\ UNCHANGED model_lock
  /\ UNCHANGED << route, request, prompt, response, result, seen, invoked, generated, answered >>
  /\ UNCHANGED globalVars
  /\ UNCHANGED initVars
  /\ UNCHANGED failed_calls

\* if model is None: ... else leave the with block and go on to the request.
RecGate(r) ==
  /\ pc[r] = "gate"
  /\ IF GateClosed
       THEN /\ pc' = [pc EXCEPT ![r] = "gate_error"]
            /\ UNCHANGED model_lock
       ELSE /\ pc' = [pc EXCEPT ![r] = "validate"]
            /\ model_lock' = Unlocked
  /\ UNCHANGED << route, request, prompt, response, result, seen, invoked, generated, answered >>
  /\ UNCHANGED globalVars
  /\ UNCHANGED initVars
  /\ UNCHANGED failed_calls

\* error_message = f"AI model is not available. Error: {e}" if e else "AI model
\* is still initializing."; return jsonify({"error": error_message}), 503
RecGateError(r) ==
  /\ pc[r] = "gate_error"
  /\ result' = [result EXCEPT ![r] =
                  IF model_initialization_error # None
                    THEN Http(503, ErrorBodyWith(MsgNotAvailable, model_initialization_error))
                    ELSE Http(503, ErrorBody(MsgInitializing))]
  /\ answered' = [answered EXCEPT ![r] = Snapshot]
  /\ model_lock' = Unlocked
  /\ pc' = [pc EXCEPT ![r] = "done"]
  /\ UNCHANGED << route, request, prompt, response, seen, invoked, generated >>
  /\ UNCHANGED globalVars
  /\ UNCHANGED initVars
  /\ UNCHANGED failed_calls

\* Lines 95-131: the content-type test, get_json, the symptoms test and the
\* prompt; every exception ends in the outer except Exception.
RecValidate(r) ==
  /\ pc[r] = "validate"
  /\ LET v == Validate(request[r]) IN
       IF v = "call"
         THEN /\ prompt' = [prompt EXCEPT ![r] = Prompt(request[r].chars)]
              /\ pc' = [pc EXCEPT ![r] = "invoke"]
              /\ UNCHANGED result
         ELSE /\ result' = [result EXCEPT ![r] =
                   IF v = "400-json" THEN Http(400, ErrorBody(MsgNotJson))
                   ELSE IF v = "400-symptoms" THEN Http(400, ErrorBody(MsgSymptoms))
                   ELSE Http(500, ErrorBody(MsgUnexpected))]
              /\ pc' = [pc EXCEPT ![r] = "done"]
              /\ UNCHANGED prompt
  /\ UNCHANGED << route, request, response, seen, invoked, generated, answered >>
  /\ UNCHANGED << model_lock, model, model_initialization_error >>
  /\ UNCHANGED initVars
  /\ failed_calls' = (failed_calls \/ Validate(request[r]) # "call")

\* response = model.generate_content(prompt, ...): the global model is read
\* again, without the lock; None has no generate_content (AttributeError, to the
\* outer except).
RecInvoke(r) ==
  /\ pc[r] = "invoke"
  /\ IF model = None
       THEN /\ result' = [result EXCEPT ![r] = Http(500, ErrorBody(MsgUnexpected))]
            /\ pc' = [pc EXCEPT ![r] = "done"]
            /\ UNCHANGED invoked
       ELSE /\ invoked' = [invoked EXCEPT ![r] = TRUE]
            /\ pc' = [pc EXCEPT ![r] = "generating"]
            /\ UNCHANGED result
  /\ UNCHANGED << route, request, prompt, response, seen, generated, answered >>
  /\ UNCHANGED << model_lock, model, model_initialization_error >>
  /\ UNCHANGED initVars
  /\ failed_calls' = (failed_calls \/ model = None)

\* The provider answers the call of worker r with text t.
ModelReturns(r, t) ==
  /\ pc[r] = "generating"
  /\ response' = [response EXCEPT ![r] = t]
  /\ generated' = [generated EXCEPT ![r] = t]
  /\ pc' = [pc EXCEPT ![r] = "respond"]
  /\ UNCHANGED << route, request, prompt, result, seen, invoked, answered >>
  /\ UNCHANGED << model_lock, model, model_initialization_error >>
  /\ UNCHANGED initVars
  /\ UNCHANGED failed_calls

\* A variant that drops the handle when the model call fails.
ModelRaisesDropsHandle(r) ==
  /\ pc[r] = "generating"
  /\ result' = [result EXCEPT ![r] = Http(500, ErrorBody(MsgUnexpected))]
  /\ pc' = [pc EXCEPT ![r] = "done"]
  /\ model' = None
  /\ failed_calls' = TRUE
  /\ UNCHANGED << route, request, prompt, response, seen, invoked, generated, answered >>
  /\ UNCHANGED << model_lock, model_initialization_error >>
  /\ UNCHANGED initVars

\* generate_content (or reading response.text) raises: the outer except.
ModelRaises(r) ==
  /\ pc[r] = "generating"
  /\ result' = [result EXCEPT ![r] = Http(500, ErrorBody(MsgUnexpected))]
  /\ pc' = [pc EXCEPT ![r] = "done"]
  /\ UNCHANGED << route, request, prompt, response, seen, invoked, generated, answered >>
  /\ UNCHANGED << model_lock, model, model_initialization_error >>
  /\ UNCHANGED initVars
  /\ failed_calls' = TRUE

\* A variant in which the handlers share one response slot.
ResponseTextShared(r) ==
  response[CHOOSE q \in Requests : response[q] # NoNode]

\* The local `response` the handler works on.
ResponseText(r) == response[r]

\* Lines 137-149 on the handler's own response.
RecRespond(r) ==
  /\ pc[r] = "respond"
  /\ result' = [result EXCEPT ![r] = HandleResponse(ResponseText(r))]
  /\ pc' = [pc EXCEPT ![r] = "done"]
  /\ UNCHANGED << route, request, prompt, response, seen, invoked, generated, answered >>
  /\ UNCHANGED << model_lock, model, model_initialization_error >>
  /\ UNCHANGED initVars
  /\ failed_calls' = (failed_calls \/ HandleResponse(ResponseText(r)).code # 200)

\* The response is sent and the handler's locals die; the worker is free again.
Finish(r) ==
  /\ pc[r] = "done"
  /\ pc' = [pc EXCEPT ![r] = "idle"]
  /\ route' = [route EXCEPT ![r] = None]
  /\ request' = [request EXCEPT ![r] = NoRequest]
  /\ prompt' = [prompt EXCEPT ![r] = NoPrompt]
  /\ response' = [response EXCEPT ![r] = NoNode]
  /\ result' = [result EXCEPT ![r] = NoResult]
  /\ seen' = [seen EXCEPT ![r] = None]
  /\ invoked' = [invoked EXCEPT ![r] = FALSE]
  /\ generated' = [generated EXCEPT ![r] = NoNode]
  /\ answered' = [answered EXCEPT ![r] = NoSnapshot]
  /\ UNCHANGED << model_lock, model, model_initialization_error >>
  /\ UNCHANGED initVars
  /\ UNCHANGED failed_calls

\* ---------------------------------------------------------------- inputs
\* All strings over Chars of length at most n.
Strings(n) == UNION { [1..k -> Chars] : k \in 0..n }

\* The request bodies of the input specification: every symptoms string up to
\* MaxLen, the non-string symptoms values, the bodies that are no JSON object,
\* and requests whose Content-Type is not JSON.
Bodies ==
  { Req(TRUE, "obj", "str", s) : s \in Strings(MaxLen) }
    \cup { Req(TRUE, "obj", k, << >>) : k \in {"missing", "null", "zero", "num"} }
    \cup { Req(TRUE, sh, "none", << >>) : sh \in {"unparseable", "null", "num", "str", "arr"} }
    \cup { Req(FALSE, "obj", "str", << "a", "a", "a" >>), Req(FALSE, "unparseable", "none", << >>) }

\* A few of them, for the concurrent specification.
SmallBodies ==
  { Req(TRUE, "obj", "str", << "a", "a", "a" >>),
    Req(TRUE, "obj", "str", << " ", "a", "a" >>),
    Req(TRUE, "arr", "none", << >>),
    Req(FALSE, "obj", "str", << "a", "a", "a" >>) }

\* One recommendation {"id": ..., "reason": ...} as the provider writes it.
Rec(id, reason) == JObj(<< JMember("id", JStr(id)), JMember("reason", JStr(reason)) >>)

\* The elements the provider stub puts in a "recommendations" list: well-formed
\* ones (one with its members in the other order), one without "id", and one
\* that is no object.
RecElems ==
  { Rec("general-medicine", "a general checkup first"),
    JObj(<< JMember("reason", JStr("heart")), JMember("id", JStr("cardiology-echo")) >>),
    JObj(<< JMember("reason", JStr("no id given")) >>),
    JStr("urology") }

RecLists == UNION { [1..k -> RecElems] : k \in 0..MaxRecs }

Good1 == JObj(<< JMember("recommendations",
                   JArr(<< Rec("general-medicine", "a general checkup first") >>)) >>)
Good2 == JObj(<< JMember("recommendations",
                   JArr(<< Rec("orthopedics", "joint pain"),
                           Rec("general-medicine", "a general checkup first") >>)) >>)

\* The few texts the provider stub returns in the concurrent specification.
SmallTexts ==
  { PlainText(""), PlainText("not json"), JObj(<< JMember("foo", JArr(<< >>)) >>),
    JNull, Good1, Good2 }

\* The texts the provider stub returns in the input specification.
Texts ==
  { PlainText(""), PlainText("not json") } \cup SmallTexts
    \cup { JNull, JNum("1"), Node("bool", "true", << >>), JStr("abc"),
           JStr("see recommendations"), JArr(<< >>),
           JArr(<< JStr("recommendations") >>), JArr(<< Rec("orthopedics", "joint pain") >>) }
    \cup { JObj(<< JMember("recommendations", JArr(l)) >>) : l \in RecLists }
    \cup { JObj(<< JMember("foo", JArr(<< >>)) >>),
           JObj(<< JMember("recommendations", JStr("orthopedics")) >>),
           JObj(<< JMember("recommendations", JNull) >>),
           JObj(<< JMember("recommendations", Rec("orthopedics", "joint pain")) >>),
           JObj(<< JMember("recommendations", JArr(<< Rec("urology", "x") >>)),
                   JMember("foo", JNum("1")) >>),
           JObj(<< JMember("foo", JNum("1")),
                   JMember("recommendations", JArr(<< Rec("urology", "x") >>)) >>),
           JObj(<< JMember("recommendations", JNum("1")),
                   JMember("foo", JNum("1")),
                   JMember("recommendations", JArr(<< Rec("urology", "x") >>)) >>),
           JObj(<< JMember("recommendations", JArr(<< Rec("urology", "x") >>)),
                   JMember("recommendations", JNull) >>) }

\* ---------------------------------------------------------- specification
\* The module is imported: the globals are None, the lock is free, the
\* initialization thread has been started and no request has arrived yet.
Init ==
  /\ GCP_PROJECT \in {"", "my-project"}
  /\ model = None
  /\ model_initialization_error = None
  /\ model_lock = Unlocked
  /\ initPc = "try"
  /\ loaded_model = None
  /\ exc = None
  /\ pc = [r \in Requests |-> "idle"]
  /\ route = [r \in Requests |-> None]
  /\ request = [r \in Requests |-> NoRequest]
  /\ prompt = [r \in Requests |-> NoPrompt]
  /\ response = [r \in Requests |-> NoNode]
  /\ result = [r \in Requests |-> NoResult]
  /\ seen = [r \in Requests |-> None]
  /\ invoked = [r \in Requests |-> FALSE]
  /\ generated = [r \in Requests |-> NoNode]
  /\ answered = [r \in Requests |-> NoSnapshot]
  /\ failed_calls = FALSE

\* One step of worker r, its requests drawn from B and the provider's texts
\* from T.
ReqStep(r, B, T) ==
  \/ Arrive(r, "ready", NoRequest)
  \/ \E req \in B : Arrive(r, "recommend", req)
  \/ ReadyAcquire(r)
  \/ ReadyCheckModel(r)
  \/ ReadyCheckError(r)
  \/ RecAcquire(r)
  \/ RecGate(r)
  \/ RecGateError(r)
  \/ RecValidate(r)
  \/ RecInvoke(r)
  \/ \E t \in T : ModelReturns(r, t)
  \/ ModelRaises(r)
  \/ RecRespond(r)
  \/ Finish(r)

\* The concurrent system: the initialization thread and NumReq workers.
Next ==
  \/ InitStep
  \/ \E r \in Requests : ReqStep(r, SmallBodies, SmallTexts)

Spec == Init /\ [][Next]_vars

\* The pipeline on every input: the initialization thread and one worker.
NextInputs ==
  \/ InitStep
  \/ ReqStep(1, Bodies, Texts)

SpecInputs == Init /\ [][NextInputs]_vars

\* The steps of the initialization thread that wait on nothing: each call it
\* makes (os.environ.get, vertexai.init, GenerativeModel, print) returns or
\* raises, and the thread is scheduled.
InitProgress ==
  \/ InitReadEnv
  \/ InitVertexReturns
  \/ InitVertexRaises
  \/ InitConstructReturns
  \/ InitConstructRaises
  \/ InitAssign
  \/ InitRelease
  \/ InitLogReturns
  \/ InitLogRaises
  \/ InitExcept

\* The body of a handler's with block: a test and a return, waiting on nothing.
HandlerInLock(r) ==
  \/ ReadyCheckModel(r)
  \/ ReadyCheckError(r)
  \/ RecGate(r)
  \/ RecGateError(r)

\* A handler's entry to its with block.
HandlerAcquire(r) == ReadyAcquire(r) \/ RecAcquire(r)

\* The concurrent system under fair scheduling: every thread that can run does
\* (weak fairness on the steps that wait on nothing), and a thread blocked on
\* model_lock gets it if it is free again and again (strong fairness on the
\* acquisitions). Nothing is assumed of the clients (Arrive) nor of
\* generate_content (ModelReturns, ModelRaises), which may never answer.
FairSpec ==
  /\ Init
  /\ [][Next]_vars
  /\ WF_vars(InitProgress)
  /\ SF_vars(InitAcquire)
  /\ \A r \in Requests : WF_vars(HandlerInLock(r))
  /\ \A r \in Requests : SF_vars(HandlerAcquire(r))

\* ---------------------------------------------------------------- claims
\* Handler positions past the gate.
PastGate == {"validate", "invoke", "generating", "respond"}

\* C1: the observed lifecycle state only moves from Initializing to Ready or to
\* Failed; once Ready or Failed, no step of any thread changes it.
C1_LifecycleMonotone ==
  [][ LifecycleState' # LifecycleState
        => /\ LifecycleState = "Initializing"
           /\ LifecycleState' \in {"Ready", "Failed"} ]_vars

\* C1 witness: the state is Ready, the except block has run after the handle
\* was installed, and a request has been answered since.
C1_Witness ==
  /\ LifecycleState = "Ready"
  /\ initPc = "done"
  /\ model_initialization_error = ErrLog
  /\ \E r \in Requests : pc[r] = "done" /\ result[r].code = 200

\* C2: a recommend call whose gate check runs while the state is not Ready
\* answers 503 and never reaches the model call, whatever its body; the state
\* the call found when it took the lock is the state its gate check tests.
C2_FastFailGate ==
  \A r \in Requests :
    route[r] = "recommend" =>
      /\ pc[r] = "gate" => ((seen[r] = "Ready") <=> (LifecycleState = "Ready"))
      /\ seen[r] \in {"Initializing", "Failed"} =>
           /\ ~invoked[r]
           /\ pc[r] \notin PastGate
           /\ generated[r] = NoNode
           /\ pc[r] = "done" => result[r].code = 503

\* C2 witness: two calls gated concurrently while initializing, one of them
\* with a body that is not JSON, both answered 503.
C2_Witness ==
  /\ \A r \in {1, 2} :
       /\ route[r] = "recommend"
       /\ pc[r] = "done"
       /\ seen[r] = "Initializing"
       /\ result[r].code = 503
  /\ ~request[1].is_json
  /\ request[2].is_json

\* C3: at the step where /ready produces its answer, the code is 200 exactly
\* when the state is Ready, 503 exactly when it is Initializing, 500 exactly
\* when it is Failed, and then the body carries the recorded reason.
C3_ReadyMapping ==
  [][ \A r \in Requests :
        (route[r] = "ready" /\ result[r] = NoResult /\ result'[r] # NoResult) =>
          /\ result'[r].code \in {200, 500, 503}
          /\ result'[r].code = 200 <=> LifecycleState = "Ready"
          /\ result'[r].code = 503 <=> LifecycleState = "Initializing"
          /\ result'[r].code = 500 <=> LifecycleState = "Failed"
          /\ result'[r].code = 500 =>
               result'[r].body.items = << PlainText(model_initialization_error) >> ]_vars

\* C3 witness: /ready has answered 500 with the missing-project reason.
C3_Witness ==
  \E r \in Requests :
    /\ route[r] = "ready"
    /\ pc[r] = "done"
    /\ result[r].code = 500
    /\ result[r].body.items = << PlainText(ErrNoProject) >>

\* C10: no step of a /ready handler changes the model handle or the recorded
\* error, and two /ready answers produced in the same lifecycle state (same
\* handle, same error) are the same code and body.
C10_ReadyPure ==
  /\ [][ (\E r \in Requests : route'[r] = "ready" /\ pc'[r] # pc[r])
           => UNCHANGED << model, model_initialization_error >> ]_vars
  /\ [](\A r1, r2 \in Requests :
          (/\ route[r1] = "ready" /\ pc[r1] = "done"
           /\ route[r2] = "ready" /\ pc[r2] = "done"
           /\ answered[r1] = answered[r2])
            => result[r1] = result[r2])

\* C10 witness: two /ready calls have both answered in the Failed state.
C10_Witness ==
  /\ \A r \in {1, 2} :
       /\ route[r] = "ready"
       /\ pc[r] = "done"
       /\ result[r].code = 500
  /\ answered[1] = answered[2]

\* The trimmed length of a string: from its first to its last character that
\* is not whitespace.
NonBlank(s) == { i \in 1..Len(s) : s[i] \notin Whitespace }
TrimLen(s) ==
  IF NonBlank(s) = {} THEN 0
  ELSE LET first == CHOOSE i \in NonBlank(s) : \A j \in NonBlank(s) : i <= j
           last == CHOOSE i \in NonBlank(s) : \A j \in NonBlank(s) : j <= i
       IN last - first + 1

\* A JSON request body that is an object, sent to a Ready service and past the
\* validation step.
ValidatedObject(r) ==
  /\ route[r] = "recommend"
  /\ seen[r] = "Ready"
  /\ request[r].is_json
  /\ request[r].shape = "obj"
  /\ pc[r] \notin {"acquire", "gate", "validate"}

\* A request with valid input sent to a Ready service.
ValidInput(r) ==
  /\ ValidatedObject(r)
  /\ request[r].sk = "str"
  /\ TrimLen(request[r].chars) >= 3

\* C4: in state Ready, for a JSON object body, symptoms that are missing, not
\* a string or of trimmed length 0, 1 or 2 are answered 400 and never reach
\* the model; a string of trimmed length exactly 3 passes and reaches the
\* model invocation.
C4_ValidationBoundary ==
  \A r \in Requests :
    ValidatedObject(r) =>
      /\ (request[r].sk # "str" \/ TrimLen(request[r].chars) \in {0, 1, 2}) =>
           /\ pc[r] = "done"
           /\ result[r].code = 400
           /\ ~invoked[r]
           /\ generated[r] = NoNode
      /\ (request[r].sk = "str" /\ TrimLen(request[r].chars) = 3) =>
           /\ pc[r] \in {"invoke", "generating", "respond", "done"}
           /\ pc[r] # "invoke" => invoked[r]
           /\ result[r].code # 400

\* C4 witness: symptoms " aaa" (trimmed length exactly 3) reached the model and
\* were answered 200.
C4_Witness ==
  \E r \in Requests :
    /\ ValidatedObject(r)
    /\ request[r].chars = << " ", "a", "a", "a" >>
    /\ invoked[r]
    /\ pc[r] = "done"
    /\ result[r].code = 200

\* C5: in state Ready, a request whose body is not JSON, not parseable or JSON
\* of the wrong shape is answered 400 and the model is never invoked for it.
C5_MalformedBody400 ==
  \A r \in Requests :
    (/\ route[r] = "recommend"
     /\ seen[r] = "Ready"
     /\ pc[r] = "done"
     /\ (~request[r].is_json \/ request[r].shape # "obj"))
      => (result[r].code = 400 /\ ~invoked[r])

\* The text is a JSON object whose "recommendations" member (the last one of
\* that name, as JSON parsers read repeated names) is a list.
HasRecList(t) ==
  /\ t.k = "obj"
  /\ \E i \in 1..Len(t.items) :
       /\ t.items[i].s = "recommendations"
       /\ \A j \in (i + 1)..Len(t.items) : t.items[j].s # "recommendations"
       /\ t.items[i].items[1].k = "arr"

\* The elements of that list.
RecItems(t) ==
  LET i == CHOOSE i \in 1..Len(t.items) :
             /\ t.items[i].s = "recommendations"
             /\ \A j \in (i + 1)..Len(t.items) : t.items[j].s # "recommendations"
  IN t.items[i].items[1].items

\* Two JSON values with no repeated member names are the same value: the same
\* members whatever their order, the same elements in the same order.
RECURSIVE SameJson(_, _)
SameJson(a, b) ==
  /\ a.k = b.k
  /\ a.s = b.s
  /\ Len(a.items) = Len(b.items)
  /\ IF a.k = "obj"
       THEN \A i \in 1..Len(a.items) : \E j \in 1..Len(b.items) :
              /\ a.items[i].s = b.items[j].s
              /\ SameJson(a.items[i].items[1], b.items[j].items[1])
       ELSE \A i \in 1..Len(a.items) : SameJson(a.items[i], b.items[i])

\* C6: in state Ready with valid input the model is called, and when it
\* raises, or returns empty text, text that is not JSON, or JSON without a
\* "recommendations" list (JSON that is no object included), the answer is 500
\* with an error body; the handler never ends without an answer.
C6_MalformedOutput500 ==
  \A r \in Requests :
    /\ pc[r] = "done" => result[r] # NoResult
    /\ (ValidInput(r) /\ pc[r] = "done") =>
         /\ invoked[r]
         /\ ~HasRecList(generated[r]) =>
              /\ result[r].code = 500
              /\ result[r].body.k = "obj"
              /\ result[r].body.items[1].s = "error"

\* C6 witness: the model returned the JSON array ["recommendations"] and the
\* call was answered 500.
C6_Witness ==
  \E r \in Requests :
    /\ ValidInput(r)
    /\ pc[r] = "done"
    /\ generated[r] = JArr(<< JStr("recommendations") >>)
    /\ result[r].code = 500

\* C7: in state Ready with valid input, when the model's text is a JSON object
\* with a "recommendations" list the answer is 200 and its body is the parsed
\* structure of that text: the same members, the same recommendations in the
\* same order with the same id and reason.
C7_RoundTrip ==
  \A r \in Requests :
    (ValidInput(r) /\ pc[r] = "done" /\ HasRecList(generated[r])) =>
      /\ result[r].code = 200
      /\ SameJson(Loads(result[r].body), Loads(generated[r]))
      /\ HasRecList(result[r].body)
      /\ Len(RecItems(result[r].body)) = Len(RecItems(generated[r]))
      /\ \A i \in 1..Len(RecItems(generated[r])) :
           SameJson(RecItems(result[r].body)[i], RecItems(generated[r])[i])

\* C7 witness: a text with a repeated "recommendations" name and another
\* member was answered 200 with a body that is not the text as it came.
C7_Witness ==
  \E r \in Requests :
    /\ ValidInput(r)
    /\ pc[r] = "done"
    /\ result[r].code = 200
    /\ Len(generated[r].items) = 3
    /\ Len(result[r].body.items) = 2
    /\ result[r].body # generated[r]

\* C8: when initialization fails before a handle exists the state becomes
\* Failed; from then on it stays Failed, the initialization thread has ended
\* and never runs again, no call is or has been sent to the model, and every
\* call that takes the lock answers 500 on /ready and 503 on /api/recommend.
C8_FailedForever ==
  /\ [][ (initPc = "except" /\ initPc' # initPc /\ model = None)
           => LifecycleState' = "Failed" ]_vars
  /\ [][ LifecycleState = "Failed"
           => (LifecycleState' = "Failed" /\ initPc' = "done") ]_vars
  /\ [](LifecycleState = "Failed" =>
          /\ initPc = "done"
          /\ \A r \in Requests :
               /\ ~invoked[r]
               /\ pc[r] \notin PastGate
               /\ (seen[r] = "Failed" /\ pc[r] = "done") =>
                    result[r].code = (IF route[r] = "ready" THEN 500 ELSE 503))

\* C8 witness: constructing the client raised; afterwards a /ready call was
\* answered 500 and a recommend call 503.
C8_Witness ==
  /\ model_initialization_error = ErrConstruct
  /\ LifecycleState = "Failed"
  /\ \E r1, r2 \in Requests :
       /\ seen[r1] = "Failed" /\ route[r1] = "ready" /\ result[r1].code = 500
       /\ seen[r2] = "Failed" /\ route[r2] = "recommend" /\ result[r2].code = 503

\* C9: under every interleaving, a 200 answer carries the output the model
\* produced for that same call, whose prompt holds that call's symptoms.
C9_Independent ==
  \A r \in Requests :
    /\ invoked[r] => prompt[r].symptoms = request[r].chars
    /\ (route[r] = "recommend" /\ pc[r] = "done" /\ result[r].code = 200) =>
         /\ HasRecList(generated[r])
         /\ SameJson(Loads(result[r].body), Loads(generated[r]))

\* C9 witness: two calls were given distinct well-formed outputs and both were
\* answered 200.
C9_Witness ==
  /\ \A r \in {1, 2} : pc[r] = "done" /\ result[r].code = 200
  /\ generated[1] # generated[2]
  /\ result[1].body # result[2].body

\* A list element that exposes both "id" and "reason".
ExposesIdAndReason(e) ==
  /\ e.k = "obj"
  /\ \E i \in 1..Len(e.items) : e.items[i].s = "id"
  /\ \E i \in 1..Len(e.items) : e.items[i].s = "reason"

\* C11: a model output whose "recommendations" list holds an element without
\* "id" or "reason", or an element that is no object, is answered 500 and
\* never 200.
C11_ElementsValidated ==
  \A r \in Requests :
    (/\ ValidInput(r)
     /\ pc[r] = "done"
     /\ HasRecList(generated[r])
     /\ \E i \in 1..Len(RecItems(generated[r])) :
          ~ExposesIdAndReason(RecItems(generated[r])[i]))
      => result[r].code = 500

\* C12: every 200 answer of /api/recommend carries one or two recommendations.
C12_OneOrTwo ==
  \A r \in Requests :
    (route[r] = "recommend" /\ pc[r] = "done" /\ result[r].code = 200)
      => Len(RecItems(result[r].body)) \in {1, 2}

\* A 500 answer of a call that reached the model.
Failed500(r) ==
  /\ route[r] = "recommend"
  /\ invoked[r]
  /\ pc[r] = "done"
  /\ result[r].code = 500

\* The body is {"error": msg} and nothing else.
SaysOnly(body, msg) ==
  /\ body.k = "obj"
  /\ Len(body.items) = 1
  /\ body.items[1].s = "error"
  /\ body.items[1].items = << Node("str", msg, << >>) >>

\* C13 (as stated): all 500 answers of calls that reached the model carry the
\* same payload, whether the model call failed or its output broke the contract.
C13_SameMessage ==
  \A r1, r2 \in Requests :
    (Failed500(r1) /\ Failed500(r2)) => result[r1].body = result[r2].body

\* C13 (amended): the payload of such a 500 is one of three fixed messages with
\* no exception text and no model text in it: the unexpected-error message when
\* the model call raised, the empty-response message for empty text, the
\* malformed-response message for text that is not JSON or is a JSON object
\* without a "recommendations" list; JSON that is no object gets the malformed
\* or the unexpected message.
C13_FixedMessages ==
  \A r \in Requests :
    Failed500(r) =>
      /\ \/ SaysOnly(result[r].body, "An unexpected internal server error occurred.")
         \/ SaysOnly(result[r].body, "The AI model returned an empty response.")
         \/ SaysOnly(result[r].body, "The AI model returned a malformed response.")
      /\ generated[r] = NoNode =>
           SaysOnly(result[r].body, "An unexpected internal server error occurred.")
      /\ generated[r] = PlainText("") =>
           SaysOnly(result[r].body, "The AI model returned an empty response.")
      /\ (generated[r].k = "text" /\ generated[r].s # "") =>
           SaysOnly(result[r].body, "The AI model returned a malformed response.")
      /\ generated[r].k = "obj" =>
           SaysOnly(result[r].body, "The AI model returned a malformed response.")
      /\ generated[r].k \in {"null", "num", "bool", "str", "arr"} =>
           ~SaysOnly(result[r].body, "The AI model returned an empty response.")

\* C13 witness: one call failed on a raising model call, another on text that
\* is not JSON, and their payloads differ.
C13_Witness ==
  /\ Failed500(1) /\ generated[1] = NoNode
  /\ Failed500(2) /\ generated[2] = PlainText("not json")
  /\ result[1].body # result[2].body

\* C14: no step of a recommend call changes the model handle or the recorded
\* error; after recommend calls have failed (400 or 500) in state Ready the
\* state is still Ready, /ready answers 200 and a valid call with well-formed
\* model output answers 200.
C14_FailuresLeaveReady ==
  /\ [][ (\E r \in Requests :
            /\ route[r] = "recommend" \/ route'[r] = "recommend"
            /\ pc'[r] # pc[r])
           => UNCHANGED << model, model_initialization_error >> ]_vars
  /\ [](failed_calls => LifecycleState = "Ready")
  /\ [](\A r \in Requests :
          (seen[r] = "Ready" /\ pc[r] = "done") =>
            /\ route[r] = "ready" => result[r].code = 200
            /\ (ValidInput(r) /\ HasRecList(generated[r])) => result[r].code = 200)

\* C14 witness: after a failed recommend call, the worker's next call, valid and
\* with well-formed output, was answered 200.
C14_Witness ==
  /\ failed_calls
  /\ ValidInput(1)
  /\ pc[1] = "done"
  /\ result[1].code = 200

\* Handler positions inside `with model_lock:`.
InCriticalSection == {"check_model", "check_error", "gate", "gate_error"}

\* C15: no handler holds model_lock while it is in the model call (or anywhere
\* past the gate); whoever holds the lock is inside its critical section and
\* can take its next step, and while a call waits on the model a handler
\* waiting at a free lock can take it.
C15_NoLockDuringModelCall ==
  \A r \in Requests :
    /\ pc[r] \in PastGate \cup {"done", "idle", "acquire"} => model_lock # r
    /\ model_lock = r =>
         /\ pc[r] \in InCriticalSection
         /\ ENABLED (ReadyCheckModel(r) \/ ReadyCheckError(r) \/ RecGate(r) \/ RecGateError(r))
    /\ (pc[r] = "generating" /\ model_lock = Unlocked) =>
         \A q \in Requests :
           pc[q] = "acquire" => ENABLED (ReadyAcquire(q) \/ RecAcquire(q))

\* C15 witness: worker 1 waits on the model while worker 2 holds the lock in
\* readiness_check.
C15_Witness ==
  /\ pc[1] = "generating"
  /\ model_lock = 2
  /\ route[2] = "ready"

\* C16: every write to the model handle or to the recorded error is made by
\* a thread that holds model_lock, so neither changes while a handler is
\* inside its critical section.
C16_WritesUnderLock ==
  [][ (model' # model \/ model_initialization_error' # model_initialization_error)
        => /\ model_lock = InitThread
           /\ \A r \in Requests : pc[r] \notin InCriticalSection ]_vars

\* The initialization thread is reading its configuration or constructing the
\* client.
Configuring == initPc \in {"try", "init", "construct"}

\* C17: while the initialization thread is configuring or constructing, it
\* does not hold model_lock, every call answered so far got 503 without a model
\* call, a handler at the free lock can take it and a handler holding it can
\* take its next step; the thread holds the lock only around the assignment,
\* where it waits on nothing.
C17_NeverWaitsForInit ==
  /\ Configuring =>
       /\ model_lock # InitThread
       /\ \A r \in Requests :
            /\ pc[r] = "done" => (result[r].code = 503 /\ ~invoked[r])
            /\ pc[r] \notin PastGate
            /\ (pc[r] = "acquire" /\ model_lock = Unlocked) =>
                 ENABLED (ReadyAcquire(r) \/ RecAcquire(r))
            /\ model_lock = r =>
                 ENABLED (ReadyCheckModel(r) \/ ReadyCheckError(r)
                            \/ RecGate(r) \/ RecGateError(r))
  /\ model_lock = InitThread =>
       /\ initPc \in {"assign", "release"}
       /\ ENABLED (InitAssign \/ InitRelease)

\* C17 witness: while the client is being constructed, a /ready call and a
\* recommend call have both been answered 503.
C17_Witness ==
  /\ initPc = "construct"
  /\ \E r1, r2 \in Requests :
       /\ route[r1] = "ready" /\ pc[r1] = "done" /\ result[r1].code = 503
       /\ route[r2] = "recommend" /\ pc[r2] = "done" /\ result[r2].code = 503

\* C18: the model handle and model_initialization_error are never both set.
C18_OneOutcome ==
  ~(model # None /\ model_initialization_error # None)

\* C19: a handler that has passed the gate and not yet answered finds, at every
\* later point up to and including the model call, the handle that
\* initialization installed; a handler waiting for the model's answer has made
\* the call on it.
C19_HandleSetAtInvocation ==
  \A r \in Requests :
    /\ pc[r] \in {"validate", "invoke", "generating", "respond"} =>
         /\ model = Handle
         /\ model = loaded_model
    /\ pc[r] = "generating" => invoked[r]

\* C19 witness: a handler is inside the model call after the initialization
\* thread ran its except block, while another handler holds the lock.
C19_Witness ==
  \E r1, r2 \in Requests :
    /\ pc[r1] = "generating"
    /\ invoked[r1]
    /\ initPc = "done"
    /\ model_initialization_error # None
    /\ model_lock = r2

\* C20: under fair scheduling the lifecycle state eventually leaves
\* Initializing, model_lock once held is eventually released, a handler waiting
\* on the lock eventually enters its with block, and whoever holds the lock
\* always has a step it can take.
C20_Progress ==
  /\ <>(LifecycleState # "Initializing")
  /\ (model_lock # Unlocked) ~> (model_lock = Unlocked)
  /\ \A r \in Requests : (pc[r] = "acquire") ~> (pc[r] # "acquire")
  /\ [](model_lock = InitThread => ENABLED (InitAssign \/ InitRelease))
  /\ [](\A r \in Requests : model_lock = r => ENABLED HandlerInLock(r))

\* C20 witness: the initialization thread and a handler both wait on
\* model_lock while another handler holds it.
C20_Witness ==
  /\ initPc = "acquire"
  /\ LifecycleState = "Initializing"
  /\ \E r1, r2 \in Requests :
       /\ model_lock = r1
       /\ pc[r2] = "acquire"

====
